---- MODULE Spec2Model ----
(***************************************************************************)
(* The combinator engine of goparsify (combinator.go).                     *)
(*                                                                         *)
(* A parser is a Go closure func(ps *State, node *Result).  Here a parser  *)
(* is a record describing how it was built ([kind |-> "Seq", parsers |->   *)
(* ...]) and Apply(p, ps, node, t) runs it, t being what the package's     *)
(* node TrashResult holds: the result is the invocation record             *)
(* [ps, node, trash, calls, p, in, nodeIn, trashIn] holding the State, the *)
(* Result and TrashResult as the call found them (in, nodeIn, trashIn), as *)
(* it left them (ps, node, trash), and the invocation records of the       *)
(* sub-parser calls it made, in order (calls).  Go strings are TLA+        *)
(* strings; offsets are 0-based as in Go, so Input[i:j] is                 *)
(* SubSeq(Input, i + 1, j).                                                *)
(***************************************************************************)
EXTENDS Integers, Sequences, FiniteSets, TLC

VARIABLES ps, node, trash, last, ncalls

vars == <<ps, node, trash, last, ncalls>>

(***************************************************************************)
(* Bounds of the model.                                                    *)
(***************************************************************************)
\* Longest input, in bytes.
MaxLen == 2
\* Most parsers the caller runs one after another on one State.
MaxCalls == 2

(***************************************************************************)
(* State, Error and Result (state.go and result.go are not part of the     *)
(* sources at hand; these follow the data model of the specification and   *)
(* the uses combinator.go and combinator_test.go make of them).            *)
(***************************************************************************)
\* Error{}: the zero value, "no failure".
NoError == [pos |-> 0, expected |-> ""]

\* Result{}: empty token, no children, no value.
EmptyResult == [Token |-> "", Child |-> <<>>, Result |-> "nil"]

\* A fresh cursor over input: offset 0, nothing committed, no error,
\* whitespace skipped automatically.
NewState(input) ==
    [Input |-> input, Pos |-> 0, Cut |-> 0, Error |-> NoError,
     WS |-> "UnicodeWhitespace"]

\* ps.Errored(): an error is set iff its expected text is not empty.
Errored(s) == s.Error.expected # ""

\* ps.Recover(): forget the failure; the error is cleared to the "no failure"
\* value, position included.
Recover(s) == [s EXCEPT !.Error = NoError]

\* ps.ErrorHere(expected): fail at the current offset.
ErrorHere(s, expected) ==
    [s EXCEPT !.Error = [pos |-> s.Pos, expected |-> expected]]

\* str[i:j] of Go, for 0 <= i <= j <= len(str).
Slice(str, i, j) == IF i >= j THEN "" ELSE SubSeq(str, i + 1, j)

\* The byte of the input at 0-based offset i.
ByteAt(s, i) == Slice(s.Input, i, i + 1)

\* strings.HasPrefix(ps.Get(), match).
HasPrefix(s, match) ==
    /\ s.Pos + Len(match) <= Len(s.Input)
    /\ Slice(s.Input, s.Pos, s.Pos + Len(match)) = match

IsSpace(c) == c = " "

RECURSIVE UnicodeWhitespace(_)
\* The default whitespace policy: advance over whitespace.
UnicodeWhitespace(s) ==
    IF s.Pos < Len(s.Input) /\ IsSpace(ByteAt(s, s.Pos))
    THEN UnicodeWhitespace([s EXCEPT !.Pos = s.Pos + 1])
    ELSE s

\* The policy NoAutoWS installs: skip nothing.
NoWhitespace(s) == s

\* ps.WS(ps): run the whitespace policy in force.
WS(s) == IF s.WS = "NoWhitespace" THEN NoWhitespace(s) ELSE UnicodeWhitespace(s)

(***************************************************************************)
(* What a parser hands back, and the record of one invocation.  A call     *)
(* that never returns (a repetition whose operand succeeds without moving  *)
(* the cursor) is the outcome hang = TRUE: its caller never returns        *)
(* either, so every combinator passes it on.                               *)
(***************************************************************************)
Ret(s, n, calls) == [ps |-> s, node |-> n, calls |-> calls, hang |-> FALSE]

\* A loop that makes no progress taken for one that ends.
Hang_Returns(s, n, calls) == [ps |-> s, node |-> n, calls |-> calls, hang |-> FALSE]

Hang(s, n, calls) == [ps |-> s, node |-> n, calls |-> calls, hang |-> TRUE]

\* What TrashResult holds after the calls made so far, t being what it
\* held before the first of them.
trashAfter(calls, t) == IF calls = <<>> THEN t ELSE calls[Len(calls)].trash

Invocation(p, s, n, t, r) ==
    [ps |-> r.ps, node |-> r.node, trash |-> trashAfter(r.calls, t),
     calls |-> r.calls, hang |-> r.hang,
     p |-> p, in |-> s, nodeIn |-> n, trashIn |-> t]

RECURSIVE Apply(_, _, _, _)

(***************************************************************************)
(* Leaf parsers (parser.go is not part of the sources at hand: Exact       *)
(* follows the primitive contract and Cut its section of the               *)
(* specification).                                                         *)
(***************************************************************************)
\* Exact(match): skip whitespace, then match the literal or fail there.
Exact(match, s, n) ==
    LET s1 == WS(s) IN
    IF HasPrefix(s1, match)
    THEN Ret([s1 EXCEPT !.Pos = s1.Pos + Len(match)],
             [n EXCEPT !.Token = match], <<>>)
    ELSE Ret(ErrorHere(s1, match), n, <<>>)

\* Cut(): raise the barrier to the current offset; consume nothing.
Cut(s, n) ==
    Ret(IF s.Pos > s.Cut THEN [s EXCEPT !.Cut = s.Pos] ELSE s, n, <<>>)

\* TrashResult = &Result{}: the one node of the package every separator is
\* parsed into, as the program starts.  What a separator writes into it
\* stays there for the next separator, of this repetition or of a later one.
TrashResult == EmptyResult

(***************************************************************************)
(* Seq (combinator.go:8-23).                                               *)
(***************************************************************************)
\* Seq with the restore of the cursor left out.
seqFail_NoRestore(s, startpos) == s

\* Seq restoring the barrier along with the cursor.
seqFail_ResetCut(s, startpos) == [s EXCEPT !.Pos = startpos, !.Cut = startpos]

\* Seq leaving the cursor at the failure point once the barrier is past
\* startpos.
seqFail_KeepOnCommit(s, startpos) ==
    IF s.Cut > startpos THEN s ELSE [s EXCEPT !.Pos = startpos]

\* Seq when a sub-parser has failed: the cursor goes back to startpos, all
\* else stays as the sub-parser left it.
seqFail(s, startpos) == [s EXCEPT !.Pos = startpos]

RECURSIVE seqLoop(_, _, _, _, _, _, _)
\* The loop of Seq from its i-th parser on, and the token set after it.
seqLoop(parserfied, i, startpos, s, n, calls, t) ==
    IF i > Len(parserfied)
    THEN Ret(s, [n EXCEPT !.Token = Slice(s.Input, startpos, s.Pos)], calls)
    ELSE LET r  == Apply(parserfied[i], s, n.Child[i], trashAfter(calls, t))
             n1 == [n EXCEPT !.Child[i] = r.node]
             cs == Append(calls, r)
         IN  IF r.hang THEN Hang(r.ps, n1, cs)
             ELSE IF Errored(r.ps)
             THEN Ret(seqFail(r.ps, startpos), n1, cs)
             ELSE seqLoop(parserfied, i + 1, startpos, r.ps, n1, cs, t)

\* Seq taking startpos after a whitespace skip of its own.
SeqParser_LateStart(parsers, s, n, t) ==
    seqLoop(parsers, 1, WS(s).Pos, s,
            [n EXCEPT !.Child = [i \in 1..Len(parsers) |-> EmptyResult]], <<>>, t)

\* Seq is the Sequences module's operator, so the parser Seq builds is SeqParser.
SeqParser(parsers, s, n, t) ==
    seqLoop(parsers, 1, s.Pos, s,
            [n EXCEPT !.Child = [i \in 1..Len(parsers) |-> EmptyResult]], <<>>, t)

(***************************************************************************)
(* NoAutoWS (combinator.go:26-34).                                         *)
(***************************************************************************)
\* NoAutoWS without the restore of the policy.
NoAutoWS_NoRestore(parser, s, n, t) ==
    LET r == Apply(parser, [s EXCEPT !.WS = "NoWhitespace"], n, t)
    IN  IF r.hang THEN Hang(r.ps, r.node, <<r>>)
        ELSE Ret(r.ps, r.node, <<r>>)

NoAutoWS(parser, s, n, t) ==
    LET oldWS == s.WS
        r == Apply(parser, [s EXCEPT !.WS = "NoWhitespace"], n, t)
    IN  IF r.hang THEN Hang(r.ps, r.node, <<r>>)
        ELSE Ret([r.ps EXCEPT !.WS = oldWS], r.node, <<r>>)

(***************************************************************************)
(* AnyWithName (combinator.go:38-71).                                      *)
(***************************************************************************)
\* The alternation never taking a failure for a committed one.
pastBarrier_Never(s, startpos) == FALSE

\* The test Any and AnyWithName make of a failed alternative: the barrier
\* is past startpos, the failure is committed and the loop is left.
pastBarrier(s, startpos) == s.Cut > startpos

RECURSIVE anyWithNameLoop(_, _, _, _, _, _, _, _)
\* The loop of AnyWithName from its i-th alternative on, and what follows it.
anyWithNameLoop(name, parserfied, i, startpos, s, n, calls, t) ==
    IF i > Len(parserfied)
    THEN Ret([s EXCEPT !.Error = [pos |-> startpos, expected |-> name],
                       !.Pos = startpos], n, calls)
    ELSE LET r  == Apply(parserfied[i], s, n, trashAfter(calls, t))
             cs == Append(calls, r)
         IN  IF r.hang THEN Hang(r.ps, r.node, cs)
             ELSE IF Errored(r.ps)
             THEN IF pastBarrier(r.ps, startpos)
                  THEN \* break
                       anyWithNameLoop(name, parserfied, Len(parserfied) + 1,
                                       startpos, r.ps, r.node, cs, t)
                  ELSE anyWithNameLoop(name, parserfied, i + 1, startpos,
                                       Recover(r.ps), r.node, cs, t)
             ELSE Ret(r.ps, r.node, cs)

\* AnyWithName taking startpos before its whitespace skip.
AnyWithName_EarlyStart(name, parsers, s, n, t) ==
    LET s1 == WS(s) IN
    IF s1.Pos >= Len(s1.Input)
    THEN Ret(ErrorHere(s1, "!EOF"), n, <<>>)
    ELSE IF s1.Cut <= s.Pos
         THEN anyWithNameLoop(name, parsers, 1, s.Pos, Recover(s1), n, <<>>, t)
         ELSE Ret(s1, n, <<>>)

AnyWithName(name, parsers, s, n, t) ==
    LET s1 == WS(s) IN
    IF s1.Pos >= Len(s1.Input)
    THEN Ret(ErrorHere(s1, "!EOF"), n, <<>>)
    ELSE IF s1.Cut <= s1.Pos
         THEN anyWithNameLoop(name, parsers, 1, s1.Pos, Recover(s1), n, <<>>, t)
         ELSE Ret(s1, n, <<>>)

(***************************************************************************)
(* Longest (combinator.go:75-119).                                         *)
(***************************************************************************)
\* Longest replacing the alternative it keeps by one that ended as far.
longer_OrEqual(s, bestPS) == s.Pos >= bestPS.Pos

\* Longest replaces the alternative it keeps only by one that ended further.
longer(s, bestPS) == s.Pos > bestPS.Pos

RECURSIVE longestLoop(_, _, _, _, _, _, _, _, _, _)
\* The loop of Longest from its i-th alternative on, and what follows it.
longestLoop(name, parserfied, i, startpos, bestPS, bestResult, s, n, calls, t) ==
    IF i > Len(parserfied)
    THEN IF bestPS.Pos > startpos
         THEN Ret(bestPS, bestResult, calls)
         ELSE Ret([s EXCEPT !.Error = [pos |-> startpos, expected |-> name],
                            !.Pos = startpos], n, calls)
    ELSE LET r  == Apply(parserfied[i], s, n, trashAfter(calls, t))
             cs == Append(calls, r)
             better == longer(r.ps, bestPS)
         IN  IF r.hang THEN Hang(r.ps, r.node, cs)
             ELSE IF Errored(r.ps)
             THEN IF r.ps.Cut > startpos
                  THEN \* break
                       longestLoop(name, parserfied, Len(parserfied) + 1,
                                   startpos, bestPS, bestResult, r.ps, r.node, cs, t)
                  ELSE longestLoop(name, parserfied, i + 1, startpos, bestPS,
                                   bestResult, Recover(r.ps), r.node, cs, t)
             ELSE longestLoop(name, parserfied, i + 1, startpos,
                              IF better THEN r.ps ELSE bestPS,
                              IF better THEN r.node ELSE bestResult,
                              [r.ps EXCEPT !.Pos = startpos], r.node, cs, t)

Longest(name, parsers, s, n, t) ==
    LET s1 == WS(s) IN
    IF s1.Pos >= Len(s1.Input)
    THEN Ret(ErrorHere(s1, "!EOF"), n, <<>>)
    ELSE IF s1.Cut <= s1.Pos
         THEN longestLoop(name, parsers, 1, s1.Pos, Recover(s1), n,
                          Recover(s1), n, <<>>, t)
         ELSE Ret(s1, n, <<>>)

(***************************************************************************)
(* Any (combinator.go:122-159).                                            *)
(***************************************************************************)
\* Any keeping the earlier of two errors at one position.
furthest_Strict(longestError, e) == IF e.pos > longestError.pos THEN e ELSE longestError

\* The error Any keeps after an alternative failed with error e.
furthest(longestError, e) == IF e.pos >= longestError.pos THEN e ELSE longestError

RECURSIVE anyLoop(_, _, _, _, _, _, _, _)
\* The loop of Any from its i-th alternative on, and what follows it.
anyLoop(parserfied, i, startpos, longestError, s, n, calls, t) ==
    IF i > Len(parserfied)
    THEN Ret([s EXCEPT !.Error = longestError, !.Pos = startpos], n, calls)
    ELSE LET r  == Apply(parserfied[i], s, n, trashAfter(calls, t))
             cs == Append(calls, r)
             le == furthest(longestError, r.ps.Error)
         IN  IF r.hang THEN Hang(r.ps, r.node, cs)
             ELSE IF Errored(r.ps)
             THEN IF pastBarrier(r.ps, startpos)
                  THEN \* break
                       anyLoop(parserfied, Len(parserfied) + 1, startpos, le,
                               r.ps, r.node, cs, t)
                  ELSE anyLoop(parserfied, i + 1, startpos, le, Recover(r.ps),
                               r.node, cs, t)
             ELSE Ret(r.ps, r.node, cs)

\* Any is the TLC module's operator, so the parser Any builds is AnyParser.
\* Any without the test of the barrier on entry.
AnyParser_NoBarrierTest(parsers, s, n, t) ==
    LET s1 == WS(s) IN
    IF s1.Pos >= Len(s1.Input)
    THEN Ret(ErrorHere(s1, "!EOF"), n, <<>>)
    ELSE anyLoop(parsers, 1, s1.Pos, s1.Error, Recover(s1), n, <<>>, t)

\* Any trying every alternative and keeping the longest match.
AnyParser_AsLongest(parsers, s, n, t) == Longest("", parsers, s, n, t)

AnyParser(parsers, s, n, t) ==
    LET s1 == WS(s) IN
    IF s1.Pos >= Len(s1.Input)
    THEN Ret(ErrorHere(s1, "!EOF"), n, <<>>)
    ELSE IF s1.Cut <= s1.Pos
         THEN anyLoop(parsers, 1, s1.Pos, s1.Error, Recover(s1), n, <<>>, t)
         ELSE Ret(s1, n, <<>>)

(***************************************************************************)
(* Some, Many and manyImpl (combinator.go:164-207).  sep is the variadic   *)
(* separator list: <<>> or <<separator>>.                                  *)
(***************************************************************************)
\* manyImpl failing only when both tests hold.
manyFails_Both(min, n, s) == Len(n.Child) - 1 < min /\ s.Cut > s.Pos

\* manyImpl without the test of the barrier.
manyFails_NoCut(min, n, s) == Len(n.Child) - 1 < min

\* manyImpl when the operand has failed: the repetition fails if it has
\* fewer than min matches or the barrier is past the cursor.
manyFails(min, n, s) == Len(n.Child) - 1 < min \/ s.Cut > s.Pos

RECURSIVE manyLoop(_, _, _, _, _, _, _, _)
\* One round of the for loop of manyImpl, entered with the cursor s.  A
\* round that ends where it began would be repeated for ever.
manyLoop(min, opParser, sep, startpos, s, n, calls, t) ==
    LET r   == Apply(opParser, s, EmptyResult, trashAfter(calls, t))
        n1  == [n EXCEPT !.Child = Append(n.Child, r.node)]
        cs  == Append(calls, r)
        \* sepParser(ps, TrashResult): the separator's node is TrashResult
        \* itself, so it finds there what the separator before it left and
        \* what it leaves there is what TrashResult holds from then on (a
        \* separator of the model is a leaf: it calls no parser that could
        \* write into TrashResult on its own account).
        sr  == Apply(sep[1], r.ps, r.trash, r.trash)
        q   == [sr EXCEPT !.trash = sr.node]
        cs2 == Append(cs, q)
    IN  IF r.hang THEN Hang(r.ps, n1, cs)
        ELSE IF Errored(r.ps)
        THEN IF manyFails(min, n1, r.ps)
             THEN Ret([r.ps EXCEPT !.Pos = startpos], n1, cs)
             ELSE Ret(Recover(r.ps),
                      [n1 EXCEPT !.Child = SubSeq(n1.Child, 1, Len(n1.Child) - 1)],
                      cs)
        ELSE IF sep # <<>>
        THEN IF q.hang THEN Hang(q.ps, n1, cs2)
             ELSE IF Errored(q.ps) THEN Ret(Recover(q.ps), n1, cs2)
             ELSE IF q.ps = s THEN Hang(q.ps, n1, cs2)
             ELSE manyLoop(min, opParser, sep, startpos, q.ps, n1, cs2, t)
        ELSE IF r.ps = s THEN Hang(r.ps, n1, cs)
             ELSE manyLoop(min, opParser, sep, startpos, r.ps, n1, cs, t)

manyImpl(min, op, sep, s, n, t) ==
    manyLoop(min, op, sep, s.Pos, s, [n EXCEPT !.Child = <<>>], <<>>, t)

Some(parser, separator, s, n, t) == manyImpl(1, parser, separator, s, n, t)

\* Many asking for one match, as Some does.
Many_AsSome(parser, separator, s, n, t) == manyImpl(1, parser, separator, s, n, t)

Many(parser, separator, s, n, t) == manyImpl(0, parser, separator, s, n, t)

(***************************************************************************)
(* Maybe (combinator.go:210-220).                                          *)
(***************************************************************************)
\* Maybe without the test of the barrier: it recovers from every failure.
Maybe_AlwaysRecover(parser, s, n, t) ==
    LET r == Apply(parser, s, n, t)
    IN  IF r.hang THEN Hang(r.ps, r.node, <<r>>)
        ELSE Ret(Recover(r.ps), r.node, <<r>>)

Maybe(parser, s, n, t) ==
    LET startpos == s.Pos
        r == Apply(parser, s, n, t)
    IN  IF r.hang THEN Hang(r.ps, r.node, <<r>>)
        ELSE IF Errored(r.ps) /\ r.ps.Cut <= startpos
        THEN Ret(Recover(r.ps), r.node, <<r>>)
        ELSE Ret(r.ps, r.node, <<r>>)

(***************************************************************************)
(* Bind, Map and Merge (combinator.go:225-265).  The value Bind is given   *)
(* and the values the callbacks of Map compute are written as strings.     *)
(***************************************************************************)
Bind(parser, val, s, n, t) ==
    LET r == Apply(parser, s, n, t)
    IN  IF r.hang THEN Hang(r.ps, r.node, <<r>>)
        ELSE IF Errored(r.ps) THEN Ret(r.ps, r.node, <<r>>)
        ELSE Ret(r.ps, [r.node EXCEPT !.Result = val], <<r>>)

\* The callback of TestMap: n.Result = htmlTag{n.Child[1].Token}.
htmlTag(n) == [n EXCEPT !.Result = "htmlTag{" \o n.Child[2].Token \o "}"]

\* The callback of TestMapShorthand: n.Result = n.Token.
tokenAsResult(n) == [n EXCEPT !.Result = n.Token]

RECURSIVE flatToken(_)
RECURSIVE joinTokens(_, _)
\* The tokens of the children from the i-th on, each flattened, in a row.
joinTokens(children, i) ==
    IF i > Len(children) THEN ""
    ELSE flatToken(children[i]) \o joinTokens(children, i + 1)

\* The token flatten gives n.
flatToken(n) == IF Len(n.Child) > 0 THEN joinTokens(n.Child, 1) ELSE n.Token

\* flatten works on a copy of each child: only the token of n itself changes.
flatten(n) == [n EXCEPT !.Token = flatToken(n)]

\* f(node), f one of the callbacks above.
Callback(f, n) ==
    CASE f = "htmlTag" -> htmlTag(n)
      [] f = "tokenAsResult" -> tokenAsResult(n)
      [] f = "flatten" -> flatten(n)

Map(parser, f, s, n, t) ==
    LET r == Apply(parser, s, n, t)
    IN  IF r.hang THEN Hang(r.ps, r.node, <<r>>)
        ELSE IF Errored(r.ps) THEN Ret(r.ps, r.node, <<r>>)
        ELSE Ret(r.ps, Callback(f, r.node), <<r>>)

Merge(parser, s, n, t) == Map(parser, "flatten", s, n, t)

(***************************************************************************)
(* Parsers as data, and their dispatch.                                    *)
(***************************************************************************)
\* The fields of every record are listed in the order TLC keeps them in
\* (that of the names' first use in the module): the records shared by the
\* workers are then built in normal form.
PExact(m) == [match |-> m, kind |-> "Exact"]
PCut == [kind |-> "Cut"]
PSeq(parsers) == [parsers |-> parsers, kind |-> "Seq"]
PNoAutoWS(parser) == [parser |-> parser, kind |-> "NoAutoWS"]
PAnyWithName(name, parsers) ==
    [parsers |-> parsers, name |-> name, kind |-> "AnyWithName"]
PLongest(name, parsers) ==
    [parsers |-> parsers, name |-> name, kind |-> "Longest"]
PAny(parsers) == [parsers |-> parsers, kind |-> "Any"]
PSome(parser, sep) == [parser |-> parser, sep |-> sep, kind |-> "Some"]
PMany(parser, sep) == [parser |-> parser, sep |-> sep, kind |-> "Many"]
PMaybe(parser) == [parser |-> parser, kind |-> "Maybe"]
PBind(parser, val) == [parser |-> parser, val |-> val, kind |-> "Bind"]
PMap(parser, f) == [parser |-> parser, f |-> f, kind |-> "Map"]
PMerge(parser) == [parser |-> parser, kind |-> "Merge"]

\* Calling the parser p with the State s and the node n.
Apply(p, s, n, t) ==
    Invocation(p, s, n, t,
        CASE p.kind = "Exact" -> Exact(p.match, s, n)
          [] p.kind = "Cut" -> Cut(s, n)
          [] p.kind = "Seq" -> SeqParser(p.parsers, s, n, t)
          [] p.kind = "NoAutoWS" -> NoAutoWS(p.parser, s, n, t)
          [] p.kind = "AnyWithName" -> AnyWithName(p.name, p.parsers, s, n, t)
          [] p.kind = "Longest" -> Longest(p.name, p.parsers, s, n, t)
          [] p.kind = "Any" -> AnyParser(p.parsers, s, n, t)
          [] p.kind = "Some" -> Some(p.parser, p.sep, s, n, t)
          [] p.kind = "Many" -> Many(p.parser, p.sep, s, n, t)
          [] p.kind = "Maybe" -> Maybe(p.parser, s, n, t)
          [] p.kind = "Bind" -> Bind(p.parser, p.val, s, n, t)
          [] p.kind = "Map" -> Map(p.parser, p.f, s, n, t)
          [] p.kind = "Merge" -> Merge(p.parser, s, n, t))

(***************************************************************************)
(* The inputs and the grammars the model runs.                             *)
(***************************************************************************)
Alphabet == {"a", "b", " "}

RECURSIVE StringsOfLen(_)
StringsOfLen(k) ==
    IF k = 0 THEN {""}
    ELSE {s \o c : s \in StringsOfLen(k - 1), c \in Alphabet}

Inputs == UNION {StringsOfLen(k) : k \in 0..MaxLen}

Leaves == {PExact("a"), PExact("b"), PCut}

\* Composite operands: two plain sequences that fail at the same offset with
\* different texts, a sequence that commits, and an alternation whose first
\* alternative commits.
Composites ==
    {PSeq(<<PExact("a"), PExact("b")>>),
     PSeq(<<PExact("a"), PExact("a"), PExact("b")>>),
     PSeq(<<PExact("a"), PCut, PExact("b")>>),
     PAny(<<PSeq(<<PExact("a"), PCut, PExact("b")>>), PExact("a")>>)}

Operands == Leaves \cup Composites

ArgLists == {<<x>> : x \in Operands} \cup {<<x, y>> : x, y \in Operands}

\* The separator of a repetition: none, a literal, or a Cut(), which
\* succeeds without advancing.
Separators == {<<>>, <<PExact("b")>>, <<PCut>>}

\* What Some and Many repeat: the operands, and an optional literal, which
\* succeeds without advancing where its text is absent.
Repeated == Operands \cup {PMaybe(PExact("a"))}

\* What NoAutoWS is given: the operands, and a NoAutoWS of its own, alone and
\* followed by a literal.
Adjacent ==
    Operands \cup {PNoAutoWS(PExact("a")),
                   PSeq(<<PNoAutoWS(PExact("a")), PExact("b")>>)}

Names == {"N"}

\* The values Bind is given.
Vals == {"true"}

\* What Map is given: any operand with the callback that reads the token, a
\* sequence with the one that reads its second child.
Mapped ==
    {<<x, "tokenAsResult">> : x \in Operands}
        \cup {<<x, "htmlTag">> : x \in {y \in Operands : y.kind = "Seq"}}

\* What Merge is given: the operands, a sequence of one literal and a
\* sequence in a sequence.
Merged ==
    Operands \cup {PSeq(<<PExact("a")>>),
                   PSeq(<<PSeq(<<PExact("a")>>), PExact("b")>>)}

NoCall == [hang |-> FALSE, p |-> [kind |-> "none"]]

(***************************************************************************)
(* The state machine: a caller (runParser of the tests, or a parser of the *)
(* user's own) owns one State, and runs parsers on it one after another,   *)
(* each with a fresh node; trash is what the package's TrashResult holds.  *)
(* last is the record of the call just made.                               *)
(***************************************************************************)
Init ==
    /\ ps \in {NewState(input) : input \in Inputs}
    /\ node = EmptyResult
    /\ trash = TrashResult
    /\ last = NoCall
    /\ ncalls = 0

\* The caller runs p at the cursor.
Run(p) ==
    /\ last = NoCall
    /\ ncalls < MaxCalls
    /\ ncalls' = ncalls + 1
    /\ \E r \in {Apply(p, ps, node, trash)} :
       /\ ps' = r.ps
       /\ node' = r.node
       /\ trash' = r.trash
       /\ last' = r

RunSeq == \E parsers \in ArgLists : Run(PSeq(parsers))

RunNoAutoWS == \E parser \in Adjacent : Run(PNoAutoWS(parser))

RunAnyWithName ==
    \E name \in Names, parsers \in ArgLists : Run(PAnyWithName(name, parsers))

RunLongest ==
    \E name \in Names, parsers \in ArgLists : Run(PLongest(name, parsers))

RunAny == \E parsers \in ArgLists : Run(PAny(parsers))

RunSome == \E parser \in Repeated, sep \in Separators : Run(PSome(parser, sep))

RunMany == \E parser \in Repeated, sep \in Separators : Run(PMany(parser, sep))

RunMaybe == \E parser \in Operands : Run(PMaybe(parser))

RunBind == \E parser \in Operands, val \in Vals : Run(PBind(parser, val))

RunMap == \E pf \in Mapped : Run(PMap(pf[1], pf[2]))

RunMerge == \E parser \in Merged : Run(PMerge(parser))

\* The call returned without an error: the caller goes on to its next
\* parser with the same State and a fresh node, as the loop of Seq does.
Proceed ==
    /\ last # NoCall
    /\ ~last.hang
    /\ ~Errored(ps)
    /\ node' = EmptyResult
    /\ last' = NoCall
    /\ UNCHANGED <<ps, trash, ncalls>>

Next ==
    \/ RunSeq
    \/ RunNoAutoWS
    \/ RunAnyWithName
    \/ RunLongest
    \/ RunAny
    \/ RunSome
    \/ RunMany
    \/ RunMaybe
    \/ RunBind
    \/ RunMap
    \/ RunMerge
    \/ Proceed

Spec == Init /\ [][Next]_vars

(***************************************************************************)
(* The same caller running repetitions only, over longer inputs: a         *)
(* repetition with a separator needs four bytes to match, take the         *)
(* separator and fail in its second operand after a commit.                *)
(***************************************************************************)
MaxRepLen == 4

RepInputs == UNION {StringsOfLen(k) : k \in 0..MaxRepLen}

InitRep ==
    /\ ps \in {NewState(input) : input \in RepInputs}
    /\ node = EmptyResult
    /\ trash = TrashResult
    /\ last = NoCall
    /\ ncalls = 0

NextRep ==
    \/ RunSome
    \/ RunMany
    \/ Proceed

SpecRep == InitRep /\ [][NextRep]_vars

(***************************************************************************)
(* What the properties below speak of.                                     *)
(***************************************************************************)
RECURSIVE AllCalls(_)
\* An invocation and every invocation nested in it.
AllCalls(c) == {c} \cup UNION {AllCalls(c.calls[i]) : i \in 1..Len(c.calls)}

\* Every invocation of the call just made that returned.
Returned == IF last = NoCall THEN {} ELSE {c \in AllCalls(last) : ~c.hang}

\* startpos of an alternation: the offset after its own whitespace skip.
StartPos(c) == WS(c.in).Pos

Alternation(c) == c.p.kind \in {"Any", "AnyWithName"}

RECURSIVE Plain(_)
\* p is built from Seq, Any, AnyWithName, Many, Some and Maybe over literals
\* only: there is no Cut in it.
Plain(p) ==
    CASE p.kind = "Exact" -> TRUE
      [] p.kind \in {"Seq", "Any", "AnyWithName"} ->
            \A i \in 1..Len(p.parsers) : Plain(p.parsers[i])
      [] p.kind \in {"Many", "Some"} ->
            Plain(p.parser) /\ \A i \in 1..Len(p.sep) : Plain(p.sep[i])
      [] p.kind = "Maybe" -> Plain(p.parser)
      [] OTHER -> FALSE

\* A composite without Cut, run while nothing has been committed, failed.
PlainFailure(c) ==
    /\ c.p.kind # "Exact"
    /\ Plain(c.p)
    /\ c.in.Cut = 0
    /\ Errored(c.ps)

\* The i-th sub-parser call of c failed with the barrier past the offset pos.
FailedPast(c, i, pos) == Errored(c.calls[i].ps) /\ c.calls[i].ps.Cut > pos

\* Every alternative of the alternation c was tried and failed, none of them
\* past the barrier.
AllFailedNoCommit(c) ==
    /\ Len(c.calls) = Len(c.p.parsers)
    /\ \A i \in 1..Len(c.calls) :
          Errored(c.calls[i].ps) /\ c.calls[i].ps.Cut <= StartPos(c)

(***************************************************************************)
(* C1.  A composite of Seq, Any, AnyWithName, Many, Some and Maybe over    *)
(* literals, with no Cut in the grammar, that returns with an error set    *)
(* leaves the cursor at the offset it was invoked at.                      *)
(***************************************************************************)
\* C1 as claimed: the cursor is at the entry offset after every such failure.
C1_Claimed ==
    \A c \in Returned : PlainFailure(c) => c.ps.Pos = c.in.Pos

\* C1 as amended: Seq, Many, Some and Maybe leave the cursor at the entry
\* offset; Any and AnyWithName leave it at startpos, the offset their own
\* whitespace skip reached from the entry offset.
C1_Backtrack ==
    \A c \in Returned :
        PlainFailure(c) =>
            c.ps.Pos = IF Alternation(c) THEN StartPos(c) ELSE c.in.Pos

\* An alternation skipped whitespace, one of its alternatives consumed input
\* and failed, and the alternation failed.
C1_Witness ==
    \E c \in Returned :
        /\ PlainFailure(c)
        /\ Alternation(c)
        /\ StartPos(c) > c.in.Pos
        /\ \E i \in 1..Len(c.calls) :
              \E d \in AllCalls(c.calls[i]) :
                  ~Errored(d.ps) /\ d.ps.Pos > StartPos(c)

(***************************************************************************)
(* C2.  The cut barrier is, when a combinator returns, greater than or     *)
(* equal to what it was when that combinator was entered.                  *)
(***************************************************************************)
C2_CutMonotone ==
    \A c \in Returned : c.ps.Cut >= c.in.Cut

\* Longest returned the State it had copied for an earlier alternative,
\* after a later alternative had raised the barrier higher.
C2_Witness ==
    \E c \in Returned :
        /\ c.p.kind = "Longest"
        /\ ~Errored(c.ps)
        /\ \E i \in 1..Len(c.calls) : c.calls[i].ps.Cut > c.ps.Cut

(***************************************************************************)
(* C3.  In Any and AnyWithName, once an alternative has failed with the    *)
(* barrier past startpos, no later alternative is invoked and the          *)
(* alternation returns with an error set.                                  *)
(***************************************************************************)
C3_CommitStops ==
    \A c \in Returned :
        Alternation(c) =>
            \A i \in 1..Len(c.calls) :
                FailedPast(c, i, StartPos(c)) =>
                    i = Len(c.calls) /\ Errored(c.ps)

\* An alternative failed past the barrier, the alternation returned its
\* failure, and the alternative listed next, never called, matches at
\* startpos once the failure is recovered.
C3_Witness ==
    \E c \in Returned :
        /\ Alternation(c)
        /\ Len(c.calls) >= 1
        /\ Len(c.calls) < Len(c.p.parsers)
        /\ FailedPast(c, Len(c.calls), StartPos(c))
        /\ Errored(c.ps)
        /\ \E r \in {Apply(c.p.parsers[Len(c.calls) + 1],
                            [Recover(c.calls[Len(c.calls)].ps)
                                EXCEPT !.Pos = StartPos(c)],
                            c.nodeIn, c.trashIn)} :
              ~r.hang /\ ~Errored(r.ps) /\ r.ps.Pos > StartPos(c)

(***************************************************************************)
(* C4.  A failure that occurred after Cut raised the barrier reaches the   *)
(* caller of every enclosing Any, AnyWithName and Maybe unchanged: the     *)
(* combinator returns with exactly the error of the sub-parser that        *)
(* failed past the barrier.                                                *)
(***************************************************************************)
\* The offset the barrier is compared with: startpos of an alternation, the
\* entry offset of Maybe.
Barrier(c) == IF Alternation(c) THEN StartPos(c) ELSE c.in.Pos

C4_Verbatim ==
    \A c \in Returned :
        Alternation(c) \/ c.p.kind = "Maybe" =>
            \A i \in 1..Len(c.calls) :
                FailedPast(c, i, Barrier(c)) => c.ps.Error = c.calls[i].ps.Error

(***************************************************************************)
(* C5.  When every alternative of Any fails and none of them past the      *)
(* barrier, the error Any leaves is the error of one of its alternatives:  *)
(* the one with the largest position, the later-listed one among equal     *)
(* positions; and the cursor is at startpos.                               *)
(***************************************************************************)
\* The j-th sub-parser call of c left the furthest error, the latest of
\* those at that position.
FurthestLatest(c, j) ==
    \A i \in 1..Len(c.calls) :
        /\ c.calls[i].ps.Error.pos <= c.calls[j].ps.Error.pos
        /\ i > j => c.calls[i].ps.Error.pos < c.calls[j].ps.Error.pos

C5_FurthestError ==
    \A c \in Returned :
        c.p.kind = "Any" /\ AllFailedNoCommit(c) =>
            /\ c.ps.Pos = StartPos(c)
            /\ \E j \in 1..Len(c.calls) :
                  FurthestLatest(c, j) /\ c.ps.Error = c.calls[j].ps.Error

\* Two alternatives of Any consumed input and failed at one offset with
\* different texts.
C5_Witness ==
    \E c \in Returned :
        /\ c.p.kind = "Any"
        /\ AllFailedNoCommit(c)
        /\ Len(c.calls) = 2
        /\ c.calls[1].ps.Error.pos = c.calls[2].ps.Error.pos
        /\ c.calls[1].ps.Error.pos > StartPos(c)
        /\ c.calls[1].ps.Error.expected # c.calls[2].ps.Error.expected

(***************************************************************************)
(* C6.  When every alternative of AnyWithName(name, ...) fails and none of *)
(* them past the barrier, the error is {startpos, name} and the cursor is  *)
(* at startpos, the offset after the alternation's own whitespace skip.    *)
(***************************************************************************)
C6_NameError ==
    \A c \in Returned :
        c.p.kind = "AnyWithName" /\ AllFailedNoCommit(c) =>
            /\ c.ps.Error = [pos |-> StartPos(c), expected |-> c.p.name]
            /\ c.ps.Pos = StartPos(c)

\* AnyWithName skipped whitespace and an alternative of it failed further on.
C6_Witness ==
    \E c \in Returned :
        /\ c.p.kind = "AnyWithName"
        /\ AllFailedNoCommit(c)
        /\ StartPos(c) > c.in.Pos
        /\ \E i \in 1..Len(c.calls) : c.calls[i].ps.Error.pos > StartPos(c)

(***************************************************************************)
(* C7.  When the operand fails at the first attempt, the barrier not past  *)
(* the cursor: Many returns with no error and no children, and Some on the *)
(* same operand, State and node returns with the operand's error and the   *)
(* cursor at the repetition's start.                                       *)
(***************************************************************************)
\* The repetition c made one call, of its operand, which failed with the
\* barrier not past the cursor.
FirstAttemptFailed(c) ==
    /\ Len(c.calls) = 1
    /\ Errored(c.calls[1].ps)
    /\ c.calls[1].ps.Cut <= c.calls[1].ps.Pos

\* Some run where the Many c was run.
SomeFor(c) == Apply(PSome(c.p.parser, c.p.sep), c.in, c.nodeIn, c.trashIn)

SomeFailsAtStart(c) ==
    /\ Errored(SomeFor(c).ps)
    /\ SomeFor(c).ps.Error = c.calls[1].ps.Error
    /\ SomeFor(c).ps.Pos = c.in.Pos

\* C7 as claimed: Many leaves the cursor no further than the start.
C7_Claimed ==
    \A c \in Returned :
        c.p.kind = "Many" /\ FirstAttemptFailed(c) =>
            /\ ~Errored(c.ps)
            /\ c.node.Child = <<>>
            /\ c.ps.Pos <= c.in.Pos
            /\ SomeFailsAtStart(c)

\* C7 as amended: Many leaves the cursor where the failed operand left it,
\* at the start or past it by the whitespace skipped there.
C7_ZeroOrOne ==
    \A c \in Returned :
        c.p.kind = "Many" /\ FirstAttemptFailed(c) =>
            /\ ~Errored(c.ps)
            /\ c.node.Child = <<>>
            /\ c.ps.Pos = c.calls[1].ps.Pos
            /\ c.in.Pos <= c.ps.Pos
            /\ c.ps.Pos <= UnicodeWhitespace(c.in).Pos
            /\ SomeFailsAtStart(c)

\* Many ended with no match after its operand had skipped whitespace.
C7_Witness ==
    \E c \in Returned :
        /\ c.p.kind = "Many"
        /\ FirstAttemptFailed(c)
        /\ c.ps.Pos > c.in.Pos

(***************************************************************************)
(* C8.  In Many and Some with a separator: a separator failure after a     *)
(* successful operand ends the repetition with no error and one child per  *)
(* operand match; an operand failure right after a consumed separator      *)
(* ends it with no error too, the cursor after that separator.             *)
(***************************************************************************)
\* c is a repetition with a separator: its calls are operand, separator,
\* operand, separator, ...
WithSeparator(c) == c.p.kind \in {"Many", "Some"} /\ c.p.sep # <<>>

\* The nodes of the operand calls of c that were followed by a separator call.
Matches(c) == [k \in 1..(Len(c.calls) \div 2) |-> c.calls[2 * k - 1].node]

\* The last call of c was of the separator, and it failed.
SeparatorFailed(c) ==
    /\ Len(c.calls) > 0
    /\ Len(c.calls) % 2 = 0
    /\ Errored(c.calls[Len(c.calls)].ps)

\* The last call of c was of the operand, after a separator that matched,
\* and it failed.
TrailingSeparator(c) ==
    /\ Len(c.calls) >= 3
    /\ Len(c.calls) % 2 = 1
    /\ Errored(c.calls[Len(c.calls)].ps)

EndsWell(c) == ~Errored(c.ps) /\ c.node.Child = Matches(c)

\* C8 as claimed.
C8_Claimed ==
    \A c \in Returned :
        WithSeparator(c) =>
            /\ SeparatorFailed(c) => EndsWell(c)
            /\ TrailingSeparator(c) =>
                  /\ EndsWell(c)
                  /\ c.ps.Pos = c.calls[Len(c.calls) - 1].ps.Pos

\* C8 as amended: the operand failure after a separator fails the whole
\* repetition when the barrier is past the cursor; otherwise the cursor is
\* where the failed operand left it, after the separator and the whitespace
\* the operand skipped.
C8_Separator ==
    \A c \in Returned :
        WithSeparator(c) =>
            /\ SeparatorFailed(c) => EndsWell(c)
            /\ TrailingSeparator(c) =>
                  LET op  == c.calls[Len(c.calls)]
                      sep == c.calls[Len(c.calls) - 1]
                  IN  IF op.ps.Cut > op.ps.Pos
                      THEN /\ c.ps.Error = op.ps.Error
                           /\ c.ps.Pos = c.in.Pos
                      ELSE /\ EndsWell(c)
                           /\ c.ps.Pos = op.ps.Pos
                           /\ sep.ps.Pos <= c.ps.Pos
                           /\ c.ps.Pos <= UnicodeWhitespace(sep.ps).Pos

\* A repetition ended on a trailing separator, its last operand attempt
\* having skipped whitespace after the separator.
C8_Witness ==
    \E c \in Returned :
        /\ WithSeparator(c)
        /\ TrailingSeparator(c)
        /\ EndsWell(c)
        /\ Len(c.node.Child) >= 1
        /\ c.ps.Pos > c.calls[Len(c.calls) - 1].ps.Pos

(***************************************************************************)
(* C9.  When Seq succeeds its token is the input from the offset Seq was   *)
(* entered at to the offset after its last sub-parser, and it has one      *)
(* child per sub-parser, in listing order.                                 *)
(***************************************************************************)
C9_SeqToken ==
    \A c \in Returned :
        c.p.kind = "Seq" /\ ~Errored(c.ps) =>
            /\ c.node.Token = Slice(c.in.Input, c.in.Pos, c.ps.Pos)
            /\ Len(c.node.Child) = Len(c.p.parsers)
            /\ Len(c.calls) = Len(c.p.parsers)
            /\ \A i \in 1..Len(c.calls) :
                  c.calls[i].p = c.p.parsers[i] /\ c.node.Child[i] = c.calls[i].node

\* A Seq of two parsers succeeded over a span that begins with whitespace.
C9_Witness ==
    \E c \in Returned :
        /\ c.p.kind = "Seq"
        /\ ~Errored(c.ps)
        /\ Len(c.p.parsers) = 2
        /\ c.calls[1].p.kind = "Exact"
        /\ Len(c.node.Token) > Len(c.node.Child[1].Token)
        /\ StartPos(c) > c.in.Pos

(***************************************************************************)
(* C10.  When no alternative fails past the barrier, Longest returns the   *)
(* node and the end offset of the successful alternative that ends         *)
(* furthest past startpos, the earliest-listed of those ending there; if   *)
(* none ends past startpos it fails with {startpos, name}, the cursor at   *)
(* startpos.                                                               *)
(***************************************************************************)
\* The i-th alternative of c succeeded and ended past startpos.
Advanced(c, i) ==
    ~Errored(c.calls[i].ps) /\ c.calls[i].ps.Pos > StartPos(c)

\* The j-th alternative is the one Longest is to keep.
LongestEarliest(c, j) ==
    /\ Advanced(c, j)
    /\ \A i \in 1..Len(c.calls) :
          Advanced(c, i) =>
              /\ c.calls[i].ps.Pos <= c.calls[j].ps.Pos
              /\ i < j => c.calls[i].ps.Pos < c.calls[j].ps.Pos

\* Longest tried every alternative and none failed past the barrier.
LongestNoCommit(c) ==
    /\ c.p.kind = "Longest"
    /\ Len(c.calls) = Len(c.p.parsers)
    /\ \A i \in 1..Len(c.calls) : ~FailedPast(c, i, StartPos(c))

C10_Longest ==
    \A c \in Returned :
        LongestNoCommit(c) =>
            /\ \A j \in 1..Len(c.calls) :
                  LongestEarliest(c, j) =>
                      /\ ~Errored(c.ps)
                      /\ c.ps.Pos = c.calls[j].ps.Pos
                      /\ c.node = c.calls[j].node
            /\ (\A j \in 1..Len(c.calls) : ~Advanced(c, j)) =>
                  /\ c.ps.Error = [pos |-> StartPos(c), expected |-> c.p.name]
                  /\ c.ps.Pos = StartPos(c)

\* Two alternatives succeeded and the later-listed, longer one was kept.
C10_Witness ==
    \E c \in Returned :
        /\ LongestNoCommit(c)
        /\ Len(c.calls) = 2
        /\ Advanced(c, 1)
        /\ LongestEarliest(c, 2)
        /\ c.ps.Pos > StartPos(c) + 1

(***************************************************************************)
(* C11.  Maybe(p) entered at offset s, p failing: with the barrier not     *)
(* past s Maybe returns with no error set, with the barrier past s it      *)
(* returns with p's error unchanged.                                       *)
(***************************************************************************)
\* The sub-parser of the Maybe c failed.
MaybeFailed(c) == c.p.kind = "Maybe" /\ Errored(c.calls[1].ps)

C11_MaybeCut ==
    \A c \in Returned :
        MaybeFailed(c) =>
            IF c.calls[1].ps.Cut <= c.in.Pos
            THEN ~Errored(c.ps)
            ELSE c.ps.Error = c.calls[1].ps.Error

\* The sub-parser of a Maybe consumed input, committed and failed, and the
\* error came out of Maybe.
C11_Witness ==
    \E c \in Returned :
        /\ MaybeFailed(c)
        /\ c.calls[1].ps.Cut > c.in.Pos
        /\ c.ps.Error.pos > c.in.Pos
        /\ Errored(c.ps)

(***************************************************************************)
(* C12.  When Maybe(p) recovers from a failure of p, the node it returns   *)
(* is the empty result and the cursor is at the offset Maybe was entered   *)
(* at, whatever p wrote into the node before it failed.                    *)
(***************************************************************************)
C12_AbsentResult ==
    \A c \in Returned :
        MaybeFailed(c) /\ ~Errored(c.ps) =>
            /\ c.node = EmptyResult
            /\ c.ps.Pos = c.in.Pos

(***************************************************************************)
(* C13.  Any and AnyWithName call their alternatives in listed order, each *)
(* at startpos, and return the State and node of the first one that        *)
(* succeeds, calling none after it.                                        *)
(***************************************************************************)
C13_FirstSuccess ==
    \A c \in Returned :
        Alternation(c) =>
            /\ Len(c.calls) <= Len(c.p.parsers)
            /\ \A i \in 1..Len(c.calls) :
                  /\ c.calls[i].p = c.p.parsers[i]
                  /\ c.calls[i].in.Pos = StartPos(c)
                  /\ ~Errored(c.calls[i].ps) =>
                        /\ i = Len(c.calls)
                        /\ c.ps = c.calls[i].ps
                        /\ c.node = c.calls[i].node

\* The first alternative succeeded and the second, never called, would have
\* consumed more input.
C13_Witness ==
    \E c \in Returned :
        /\ Alternation(c)
        /\ Len(c.calls) = 1
        /\ Len(c.p.parsers) = 2
        /\ ~Errored(c.ps)
        /\ c.ps.Pos > StartPos(c)
        /\ \E r \in {Apply(c.p.parsers[2], c.calls[1].in, c.nodeIn, c.trashIn)} :
              ~Errored(r.ps) /\ r.ps.Pos > c.ps.Pos

(***************************************************************************)
(* C14.  When a combinator fails and the barrier has been raised to or     *)
(* past the offset the combinator was entered at, the cursor is left at    *)
(* the failure point, not restored.                                        *)
(***************************************************************************)
\* The combinator c failed with the barrier raised and at or past the offset
\* c was entered at.
CommittedFailure(c) ==
    /\ c.p.kind \notin {"Exact", "Cut"}
    /\ Errored(c.ps)
    /\ c.ps.Cut > 0
    /\ c.ps.Cut >= c.in.Pos

\* C14 as claimed.
C14_Claimed ==
    \A c \in Returned : CommittedFailure(c) => c.ps.Pos = c.ps.Error.pos

\* C14 as amended: the cursor is restored all the same, by Seq, Many and
\* Some to the entry offset, by Any, AnyWithName and Longest to startpos;
\* Maybe and NoAutoWS leave it where their sub-parser left it.
C14_Restored ==
    \A c \in Returned :
        CommittedFailure(c) =>
            c.ps.Pos =
                CASE c.p.kind \in {"Seq", "Many", "Some"} -> c.in.Pos
                  [] c.p.kind \in {"Any", "AnyWithName", "Longest"} -> StartPos(c)
                  [] OTHER -> c.calls[1].ps.Pos

\* A combinator raised the barrier, failed past it, and returned with the
\* cursor behind the failure point.
C14_Witness ==
    \E c \in Returned :
        /\ CommittedFailure(c)
        /\ c.ps.Cut > c.in.Cut
        /\ c.ps.Cut > c.in.Pos
        /\ c.ps.Error.pos > c.ps.Pos

(***************************************************************************)
(* C15.  NoAutoWS(p) returns with the whitespace policy the State had when *)
(* it was entered, p having failed or not, and p and every parser called   *)
(* beneath it is entered with the no-op policy.                            *)
(***************************************************************************)
C15_PolicyRestored ==
    \A c \in Returned :
        c.p.kind = "NoAutoWS" =>
            /\ c.ps.WS = c.in.WS
            /\ \A d \in AllCalls(c.calls[1]) : d.in.WS = "NoWhitespace"

\* NoAutoWS entered with the skipping policy before whitespace, its literal
\* failing right there.
C15_Witness ==
    \E c \in Returned :
        /\ c.p.kind = "NoAutoWS"
        /\ c.in.WS = "UnicodeWhitespace"
        /\ c.ps.WS = "UnicodeWhitespace"
        /\ UnicodeWhitespace(c.in).Pos > c.in.Pos
        /\ c.calls[1].p.kind = "Exact"
        /\ Errored(c.ps)
        /\ c.ps.Error.pos = c.in.Pos

(***************************************************************************)
(* C16.  In Longest, once an alternative has failed with the barrier past  *)
(* startpos, no later alternative is called and Longest returns with an    *)
(* error set, an earlier alternative having succeeded or not.              *)
(***************************************************************************)
C16_LongestCommit ==
    \A c \in Returned :
        c.p.kind = "Longest" =>
            \A i \in 1..Len(c.calls) :
                FailedPast(c, i, StartPos(c)) =>
                    i = Len(c.calls) /\ Errored(c.ps)

(***************************************************************************)
(* C17.  In Many and Some, when the operand fails and the barrier is past  *)
(* the cursor the failed operand left, the whole repetition fails, the     *)
(* minimum count reached or not: the operand's error stays as it is and    *)
(* the cursor is back at the repetition's start.                           *)
(***************************************************************************)
Repetition(c) == c.p.kind \in {"Many", "Some"}

\* The last call of the repetition c was of its operand, and it failed.
OperandFailed(c) ==
    /\ Len(c.calls) > 0
    /\ c.p.sep = <<>> \/ Len(c.calls) % 2 = 1
    /\ Errored(c.calls[Len(c.calls)].ps)

\* ... with the barrier past the cursor it left.
OperandFailedPast(c) ==
    /\ OperandFailed(c)
    /\ c.calls[Len(c.calls)].ps.Cut > c.calls[Len(c.calls)].ps.Pos

C17_RepetitionCommit ==
    \A c \in Returned :
        Repetition(c) /\ OperandFailedPast(c) =>
            /\ Errored(c.ps)
            /\ c.ps.Error = c.calls[Len(c.calls)].ps.Error
            /\ c.ps.Pos = c.in.Pos

\* A repetition that had matched its operand, and so reached its minimum,
\* failed in a later operand past the barrier.
C17_Witness ==
    \E c \in Returned :
        /\ Repetition(c)
        /\ OperandFailedPast(c)
        /\ Len(c.calls) >= 2
        /\ Len(c.node.Child) >= 2
        /\ c.calls[1].ps.Pos > c.in.Pos
        /\ Errored(c.ps)

(***************************************************************************)
(* C18.  Any, AnyWithName and Longest entered before the end of the input  *)
(* with the barrier past startpos call none of their alternatives and      *)
(* return the State and the node as they were after the whitespace skip.   *)
(***************************************************************************)
\* c is an alternation entered with the barrier past its startpos, not at
\* the end of the input.
EnteredCommitted(c) ==
    /\ c.p.kind \in {"Any", "AnyWithName", "Longest"}
    /\ StartPos(c) < Len(c.in.Input)
    /\ c.in.Cut > StartPos(c)

C18_EnteredCommitted ==
    \A c \in Returned :
        EnteredCommitted(c) =>
            /\ c.calls = <<>>
            /\ c.ps = WS(c.in)
            /\ c.node = c.nodeIn

\* An alternation with an alternative that matches at startpos was entered
\* with the barrier past startpos, and returned at once.
C18_Witness ==
    \E c \in Returned :
        /\ EnteredCommitted(c)
        /\ c.calls = <<>>
        /\ \E i \in 1..Len(c.p.parsers) :
              \E r \in {Apply(c.p.parsers[i], [WS(c.in) EXCEPT !.Cut = 0],
                              c.nodeIn, c.trashIn)} :
                  ~Errored(r.ps) /\ r.ps.Pos > StartPos(c)

(***************************************************************************)
(* C19.  Any, AnyWithName and Longest do not report success without a      *)
(* match: if one returns with no error set, one of its alternatives        *)
(* succeeded in this call, and the State and node are that alternative's.  *)
(***************************************************************************)
C19_NoSuccessWithoutMatch ==
    \A c \in Returned :
        c.p.kind \in {"Any", "AnyWithName", "Longest"} /\ ~Errored(c.ps) =>
            \E i \in 1..Len(c.calls) :
                /\ ~Errored(c.calls[i].ps)
                /\ c.ps = c.calls[i].ps
                /\ c.node = c.calls[i].node

(***************************************************************************)
(* C20.  A repetition returns when every successful match of its operand   *)
(* advances the cursor; it never returns once a round (the operand, and    *)
(* the separator if there is one) has succeeded without advancing it.      *)
(***************************************************************************)
\* Every call made so far, the ones that do not return included.
Called == IF last = NoCall THEN {} ELSE AllCalls(last)

\* The indices in c.calls of the calls of the operand.
OperandCalls(c) ==
    {i \in 1..Len(c.calls) : c.p.sep = <<>> \/ i % 2 = 1}

Succeeded(d) == ~d.hang /\ ~Errored(d.ps)

\* The round of c that began with the call i of the operand succeeded and
\* ended at the offset it began at.
IdleRound(c, i) ==
    /\ Succeeded(c.calls[i])
    /\ IF c.p.sep = <<>>
       THEN c.calls[i].ps.Pos = c.calls[i].in.Pos
       ELSE /\ i + 1 <= Len(c.calls)
            /\ Succeeded(c.calls[i + 1])
            /\ c.calls[i + 1].ps.Pos = c.calls[i].in.Pos

\* The loop of c itself does not end (no call it made is still running).
Loops(c) == c.hang /\ \A i \in 1..Len(c.calls) : ~c.calls[i].hang

C20_Termination ==
    \A c \in Called :
        Repetition(c) =>
            /\ (\A i \in OperandCalls(c) :
                    Succeeded(c.calls[i]) =>
                        c.calls[i].ps.Pos > c.calls[i].in.Pos) => ~Loops(c)
            /\ (\E i \in OperandCalls(c) : IdleRound(c, i)) => Loops(c)

\* A repetition matched its operand once with progress and then loops on a
\* round that makes none.
C20_Witness ==
    \E c \in Called :
        /\ Repetition(c)
        /\ Loops(c)
        /\ Len(c.calls) >= 2
        /\ c.calls[1].ps.Pos > c.calls[1].in.Pos

====
